---- MODULE Spec2Model ----
(***************************************************************************)
(* Model of static/app.js, the tile editor of Kachelgenerator: the single  *)
(* mutable editor state, the layout-preset codec (currentLayoutParams /    *)
(* applyLayout), the canvas preview (renderPreview, an async function that *)
(* suspends on img.decode()), the pointer handlers that drag icon and      *)
(* text, the handlers that upload an icon, save a preset and request a     *)
(* rendered tile, and the startup loader init().                           *)
(*                                                                         *)
(* Numbers.  iconScale is a JS float; it is kept here in hundredths        *)
(* (0.45 is 45), so that 450 * iconScale / 2 is 9 * iconScale / 4 pixels   *)
(* and every comparison of the hit test is an exact integer comparison in  *)
(* quarter pixels.  NaN (parseFloat / parseInt of a non-numeric string) is *)
(* the value NaN below; every comparison with it is false, as in JS.       *)
(***************************************************************************)
EXTENDS Integers, Sequences, FiniteSets, TLC

(***************************************************************************)
(* Bounds of the model.                                                    *)
(***************************************************************************)
\* render passes that may be suspended on img.decode() at once
MaxPasses == 2

\* icon-upload handlers that may be awaiting a response at once
MaxUploads == 1

\* save-layout handlers that may be awaiting a response at once
MaxSaves == 1

\* render-btn handlers that may be awaiting a response at once
MaxRenders == 1

(***************************************************************************)
(* Values.                                                                 *)
(***************************************************************************)
\* JS null, for state.selectedIcon (a record, so that it compares with icons)
null == [id |-> 0, preview_url |-> "null"]

\* IEEE NaN, the result of parseFloat("") and parseInt("", 10)
NaN == -1000000

IsNaN(n) == n = NaN

\* JSON null where a number may stand: JSON.stringify of NaN and of null
JsonNull == -2000000

\* canvas side in pixels: fillRect(0, 0, 450, 450), 450 * state.iconScale
CanvasSize == 450

\* corner radius: drawRoundedRect(0, 0, 450, 450, 30), corner_radius_px: 30
CornerRadius == 30

\* the 2d context's initial font size ("10px sans-serif")
DefaultFontPx == 10

Pt(px, py) == [x |-> px, y |-> py]

\* const state = { ... }
InitialState ==
  [ colors        |-> <<>>,
    layouts       |-> <<>>,
    icons         |-> <<>>,
    selectedIcon  |-> null,
    selectedColor |-> "#6870ef",
    text          |-> "Alarm",
    iconPosition  |-> Pt(300, 170),
    iconScale     |-> 45,
    textPosition  |-> Pt(60, 360),
    textSize      |-> 48,
    dragging      |-> "null" ]

(***************************************************************************)
(* What the store may answer.                                              *)
(***************************************************************************)
Icon1 == [id |-> 1, preview_url |-> "/icons/1"]
Icon2 == [id |-> 2, preview_url |-> "/icons/2"]

\* GET /api/icons
IconLists == { <<>>, <<Icon1>>, <<Icon1, Icon2>> }

FewIconLists == { <<>>, <<Icon1>> }

TwoIconLists == { <<Icon1, Icon2>> }

\* a params document of the canonical shape
Params(n, r, ix, iy, is, tx, ty, fs, fw, al) ==
  [ name |-> n, corner_radius_px |-> r,
    icon |-> [x |-> ix, y |-> iy, scale |-> is],
    text |-> [x |-> tx, y |-> ty, font_size |-> fs, font_weight |-> fw, align |-> al] ]

\* a preset as the editor saves it (name "Custom", radius 30, semibold, left)
\* (its id is a JSON number)
Preset1 == [id |-> [t |-> "number", v |-> 1], name |-> "Standard",
            params |-> Params("Custom", 30, 300, 170, 45, 60, 360, 48, "semibold", "left")]

\* a preset written by another client of the store: other name, radius, weight
\* (its id is a JSON string)
Preset2 == [id |-> [t |-> "string", v |-> 2], name |-> "Mitte",
            params |-> Params("Mitte", 20, 200, 200, 50, 10, 400, 30, "bold", "center")]

\* GET /api/layout-presets
LayoutLists == { <<>>, <<Preset1, Preset2>> }

\* GET /api/layout-presets when the store lists the other client's preset first
ReloadLists == LayoutLists \cup { <<Preset2, Preset1>> }

\* GET /api/colors
ColorLists == { << [name |-> "Blau", hex |-> "#6870EF"] >> }

(***************************************************************************)
(* What the user may enter.                                                *)
(***************************************************************************)
\* event.offsetX, event.offsetY of the pointer events
Points == { Pt(300, 170), Pt(70, 370), Pt(5, 5) }

\* the two of them that lie in the initial icon box and text box
HitPoints == { Pt(300, 170), Pt(70, 370) }

\* event.target.value of #text-input
TextValues == { "" }

\* event.target.value of #color-select and #color-custom
ColorValues == { "#ff0000" }

\* event.target.value of #icon-scale and of #text-size, as strings of characters
ScaleValues == { <<"0", ".", "5">> }

SizeValues == { <<"3", "0">> }

\* the same controls when their value may also be empty
RawScaleValues == ScaleValues \cup { <<>> }

RawSizeValues == SizeValues \cup { <<>> }

\* what prompt("Name fuer Layout-Preset?") returns: null when cancelled, else
\* the text entered
PromptValues == { "null", "", "Neu" }

\* download_url of the answer to POST /api/render
DownloadUrls == { "/api/renders/1/download" }

(***************************************************************************)
(* parseFloat and parseInt(_, 10) on the strings above: the longest        *)
(* numeric prefix, NaN when there is none.  (Signs, exponents and leading  *)
(* white space are not among the inputs; parseFloat keeps two decimals,    *)
(* the unit of iconScale here.)                                            *)
(***************************************************************************)
IsDigit(c) == c \in {"0", "1", "2", "3", "4", "5", "6", "7", "8", "9"}

DigitValue(c) ==
  CASE c = "0" -> 0 [] c = "1" -> 1 [] c = "2" -> 2 [] c = "3" -> 3 [] c = "4" -> 4
    [] c = "5" -> 5 [] c = "6" -> 6 [] c = "7" -> 7 [] c = "8" -> 8 [] c = "9" -> 9

RECURSIVE LeadingDigits(_)
LeadingDigits(str) ==
  IF str # <<>> /\ IsDigit(Head(str)) THEN <<Head(str)>> \o LeadingDigits(Tail(str))
  ELSE <<>>

RECURSIVE DigitsValue(_, _)
DigitsValue(digits, acc) ==
  IF digits = <<>> THEN acc
  ELSE DigitsValue(Tail(digits), 10 * acc + DigitValue(Head(digits)))

parseInt(str) ==
  LET digits == LeadingDigits(str)
  IN  IF digits = <<>> THEN NaN ELSE DigitsValue(digits, 0)

\* in hundredths
parseFloat(str) ==
  LET whole == LeadingDigits(str)
      rest  == SubSeq(str, Len(whole) + 1, Len(str))
      frac  == IF rest # <<>> /\ Head(rest) = "." THEN LeadingDigits(Tail(rest)) ELSE <<>>
      two   == SubSeq(frac \o <<"0", "0">>, 1, 2)
  IN  IF whole = <<>> /\ frac = <<>> THEN NaN
      ELSE 100 * DigitsValue(whole, 0) + DigitsValue(two, 0)

(***************************************************************************)
(* The 2d context's font.  Assigning a string that is no valid CSS font    *)
(* ("600 NaNpx Inter, ...") leaves ctx.font as it was.                     *)
(***************************************************************************)
setFont(font, size) == IF IsNaN(size) \/ size < 0 THEN font ELSE size

\* ctx.measureText(text).width under a font of `font` px: half an em a character
measureText(text, font) == (Len(text) * font) \div 2

(***************************************************************************)
(* Preset codec.                                                           *)
(***************************************************************************)
\* currentLayoutParams(), of state s
currentLayoutParams(s) ==
  [ name |-> "Custom",
    corner_radius_px |-> CornerRadius,
    icon |-> [x |-> s.iconPosition.x, y |-> s.iconPosition.y, scale |-> s.iconScale],
    text |-> [x |-> s.textPosition.x, y |-> s.textPosition.y, font_size |-> s.textSize,
              font_weight |-> "semibold", align |-> "left"] ]

\* a variant of applyLayout that rebuilds the state from the defaults, keeping
\* only the loaded lists: it loses text, color, icon and drag target
applyLayoutFromDefaults(s, layout) ==
  LET params == layout.params
  IN  [InitialState EXCEPT !.colors = s.colors, !.layouts = s.layouts, !.icons = s.icons,
                           !.iconPosition = params.icon,
                           !.iconScale    = params.icon.scale,
                           !.textPosition = [x |-> params.text.x, y |-> params.text.y],
                           !.textSize     = params.text.font_size]

\* applyLayout(layout), its assignments to state; { ...params.icon } copies
\* every property of params.icon
applyLayout(s, layout) ==
  LET params == layout.params
  IN  [s EXCEPT !.iconPosition = params.icon,
                !.iconScale    = params.icon.scale,
                !.textPosition = [x |-> params.text.x, y |-> params.text.y],
                !.textSize     = params.text.font_size]

(***************************************************************************)
(* Hit tests of the mousedown handler, in quarter pixels for the icon:     *)
(* 4 * (iconSize / 2) = 4 * 450 * iconScale / 200 with iconScale in        *)
(* hundredths.                                                             *)
(***************************************************************************)
IconHalf4(s) == (CanvasSize * s.iconScale) \div 50

\* a variant of the icon test that does not ask whether an icon is selected
iconHitUnselected(s, p) ==
  /\ ~IsNaN(s.iconScale)
  /\ 4 * p.x >= 4 * s.iconPosition.x - IconHalf4(s)
  /\ 4 * p.x <= 4 * s.iconPosition.x + IconHalf4(s)
  /\ 4 * p.y >= 4 * s.iconPosition.y - IconHalf4(s)
  /\ 4 * p.y <= 4 * s.iconPosition.y + IconHalf4(s)

iconHit(s, p) ==
  /\ s.selectedIcon # null
  /\ ~IsNaN(s.iconScale)
  /\ 4 * p.x >= 4 * s.iconPosition.x - IconHalf4(s)
  /\ 4 * p.x <= 4 * s.iconPosition.x + IconHalf4(s)
  /\ 4 * p.y >= 4 * s.iconPosition.y - IconHalf4(s)
  /\ 4 * p.y <= 4 * s.iconPosition.y + IconHalf4(s)

\* font: the context's font after ctx.font = `600 ${state.textSize}px ...`
textHit(s, font, p) ==
  LET textWidth == measureText(s.text, font)
  IN  /\ p.x >= s.textPosition.x
      /\ p.x <= s.textPosition.x + textWidth
      /\ p.y >= s.textPosition.y
      /\ ~IsNaN(s.textSize)
      /\ p.y <= s.textPosition.y + s.textSize

\* a variant of the mousedown handler that tests the text box first
mousedownTextFirst(s, font, p) ==
  IF textHit(s, setFont(font, s.textSize), p) THEN [s EXCEPT !.dragging = "text"]
  ELSE IF iconHit(s, p) THEN [s EXCEPT !.dragging = "icon"]
  ELSE s

\* the mousedown handler's effect on state; font is ctx.font on entry
mousedown(s, font, p) ==
  IF iconHit(s, p) THEN [s EXCEPT !.dragging = "icon"]
  ELSE IF textHit(s, setFont(font, s.textSize), p) THEN [s EXCEPT !.dragging = "text"]
  ELSE s

\* the mousedown handler's effect on ctx.font
mousedownFont(s, font, p) ==
  IF iconHit(s, p) THEN font ELSE setFont(font, s.textSize)

\* a variant of the mousemove handler that moves icon and text alike
mousemoveBoth(s, p) ==
  IF s.dragging = "null" THEN s
  ELSE [s EXCEPT !.iconPosition = [x |-> p.x, y |-> p.y],
                 !.textPosition = [x |-> p.x, y |-> p.y]]

\* the mousemove handler's effect on state
mousemove(s, p) ==
  IF s.dragging = "null" THEN s
  ELSE IF s.dragging = "icon" THEN [s EXCEPT !.iconPosition = [x |-> p.x, y |-> p.y]]
  ELSE IF s.dragging = "text" THEN [s EXCEPT !.textPosition = [x |-> p.x, y |-> p.y]]
  ELSE s

\* a variant of the mouseup handler that ends only a drag of the icon
mouseupIconOnly(s) == IF s.dragging = "icon" THEN [s EXCEPT !.dragging = "null"] ELSE s

\* the mouseup and mouseleave handlers
mouseup(s) == [s EXCEPT !.dragging = "null"]

mouseleave(s) == [s EXCEPT !.dragging = "null"]

(***************************************************************************)
(* The program's state.                                                    *)
(***************************************************************************)
VARIABLES
  state,      \* const state
  surface,    \* the paint operations on the canvas since its last clearRect
  ctxFont,    \* ctx.font, its size in px
  passes,     \* renderPreview calls suspended in `await img.decode()`, by img.src
  initPc,     \* the request init() is awaiting, or "done" / "failed"
  uploads,    \* icon-upload handlers in flight, by the request they await
  saves,      \* save-layout handlers in flight, by the request they await
  renders,    \* render-btn handlers in flight: the request each awaits and the
              \* body of its POST /api/render
  lastEvent   \* the handler step that ran last: its kind (the pointer handlers,
              \* preset applications, clicks and failures are told apart, the
              \* rest is "other"), its input (the pointer position, the index of
              \* the preset, the answer to the prompt), and what it showed the
              \* user: the message of alert(), the URL of window.open()

vars == <<state, surface, ctxFont, passes, initPc, uploads, saves, renders, lastEvent>>

Urls == { Icon1.preview_url, Icon2.preview_url }

PassCount == passes[Icon1.preview_url] + passes[Icon2.preview_url]

UploadCount == uploads.post + uploads.icons

Origin == Pt(0, 0)

Ev(kind, p) == [kind |-> kind, p |-> p, alert |-> "none", open |-> "none"]

Other == Ev("other", Origin)

\* fetchJSON: new Error(message.error || "Request failed"), for an answer that
\* carries no error text
RequestFailed == "Request failed"

\* a step in which a request of the handler `kind` failed and the handler's
\* catch clause called alert(error.message)
Alerted(kind) == [Ev(kind, Origin) EXCEPT !.alert = RequestFailed]

\* a step in which a request of the handler `kind` failed and nothing caught
\* the error: the handler's promise rejects, nobody is told
Uncaught(kind) == Ev(kind, Origin)

\* the kinds of the steps in which a request failed
FailureKinds == { "upload-failed", "save-failed", "render-failed", "init-failed" }

(***************************************************************************)
(* renderPreview.  Up to `await img.decode()` it runs within the calling   *)
(* handler; the rest runs when the decode promise settles.                 *)
(***************************************************************************)
\* clearRect, clip, fillStyle = state.selectedColor, fillRect
FillOp(s) == [op |-> "fillRect", style |-> s.selectedColor]

\* drawImage(img, x - size / 2, y - size / 2, size, size), in quarter pixels;
\* drawImage with a NaN argument draws nothing
IconOps(s, img) ==
  IF IsNaN(s.iconScale) THEN <<>>
  ELSE << [op |-> "drawImage", img |-> img,
           x4 |-> 4 * s.iconPosition.x - IconHalf4(s),
           y4 |-> 4 * s.iconPosition.y - IconHalf4(s),
           size4 |-> 2 * IconHalf4(s)] >>

\* fillStyle = "white", font, textBaseline = "top", fillText(text, x, y)
TextOp(s, font) ==
  [op |-> "fillText", text |-> s.text, font |-> font,
   x |-> s.textPosition.x, y |-> s.textPosition.y]

\* the synchronous part of renderPreview(), called with state s
renderPreview(s) ==
  IF s.selectedIcon # null
  THEN /\ PassCount < MaxPasses
       /\ surface' = <<FillOp(s)>>
       /\ passes' = [passes EXCEPT ![s.selectedIcon.preview_url] = @ + 1]
       /\ ctxFont' = ctxFont
  ELSE /\ surface' = <<FillOp(s), TextOp(s, setFont(ctxFont, s.textSize))>>
       /\ passes' = passes
       /\ ctxFont' = setFont(ctxFont, s.textSize)

\* a handler that does not call renderPreview
NoRender == UNCHANGED <<surface, passes, ctxFont>>

\* a variant of the resumed pass that also ends the drag in progress
DecodeResolvedEndsDrag(img) ==
  /\ passes[img] > 0
  /\ passes' = [passes EXCEPT ![img] = @ - 1]
  /\ ctxFont' = setFont(ctxFont, state.textSize)
  /\ surface' = surface \o IconOps(state, img) \o <<TextOp(state, ctxFont')>>
  /\ state' = [state EXCEPT !.dragging = "null"]
  /\ lastEvent' = Other
  /\ UNCHANGED <<initPc, uploads, saves, renders>>

\* img.decode() resolves: the pass draws icon and text from the state as it is now
DecodeResolved(img) ==
  /\ passes[img] > 0
  /\ passes' = [passes EXCEPT ![img] = @ - 1]
  /\ ctxFont' = setFont(ctxFont, state.textSize)
  /\ surface' = surface \o IconOps(state, img) \o <<TextOp(state, ctxFont')>>
  /\ lastEvent' = Other
  /\ UNCHANGED <<state, initPc, uploads, saves, renders>>

\* img.decode() rejects: renderPreview's promise rejects, nothing more is drawn
DecodeRejected(img) ==
  /\ passes[img] > 0
  /\ passes' = [passes EXCEPT ![img] = @ - 1]
  /\ lastEvent' = Uncaught("decode-error")
  /\ UNCHANGED <<state, surface, ctxFont, initPc, uploads, saves, renders>>

(***************************************************************************)
(* attachControls: the handlers.                                           *)
(***************************************************************************)
TextInput(value) ==
  /\ state' = [state EXCEPT !.text = value]
  /\ renderPreview(state')
  /\ lastEvent' = Other
  /\ UNCHANGED <<initPc, uploads, saves, renders>>

ColorSelectChange(value) ==
  /\ state' = [state EXCEPT !.selectedColor = value]
  /\ renderPreview(state')
  /\ lastEvent' = Other
  /\ UNCHANGED <<initPc, uploads, saves, renders>>

ColorCustomInput(value) ==
  /\ state' = [state EXCEPT !.selectedColor = value]
  /\ renderPreview(state')
  /\ lastEvent' = Other
  /\ UNCHANGED <<initPc, uploads, saves, renders>>

IconScaleInput(value) ==
  /\ state' = [state EXCEPT !.iconScale = parseFloat(value)]
  /\ renderPreview(state')
  /\ lastEvent' = Other
  /\ UNCHANGED <<initPc, uploads, saves, renders>>

TextSizeInput(value) ==
  /\ state' = [state EXCEPT !.textSize = parseInt(value)]
  /\ renderPreview(state')
  /\ lastEvent' = Other
  /\ UNCHANGED <<initPc, uploads, saves, renders>>

\* option.value = layout.id makes a string of the id
OptionValue(layout) == [t |-> "string", v |-> layout.id.v]

\* state.layouts.find((layout) => layout.id === event.target.value)
FindLayout(s, value) ==
  LET hits == { i \in 1..Len(s.layouts) : s.layouts[i].id = value }
  IN  IF hits = {} THEN <<>>
      ELSE << s.layouts[CHOOSE i \in hits : \A j \in hits : i <= j] >>

\* change of #layout-select to its i-th option
LayoutSelectChange(i) ==
  /\ i \in 1..Len(state.layouts)
  /\ LET selected == FindLayout(state, OptionValue(state.layouts[i]))
     IN  IF selected = <<>>
         THEN UNCHANGED state /\ NoRender /\ lastEvent' = Other
         ELSE /\ state' = applyLayout(state, selected[1])
              /\ renderPreview(state')
              /\ lastEvent' = Ev("applyLayout", Pt(i, 0))
  /\ UNCHANGED <<initPc, uploads, saves, renders>>

\* click on the i-th item of #icon-grid
IconClick(i) ==
  /\ i \in 1..Len(state.icons)
  /\ state' = [state EXCEPT !.selectedIcon = state.icons[i]]
  /\ renderPreview(state')
  /\ lastEvent' = Other
  /\ UNCHANGED <<initPc, uploads, saves, renders>>

MouseDown(p) ==
  /\ state' = mousedown(state, ctxFont, p)
  /\ ctxFont' = mousedownFont(state, ctxFont, p)
  /\ lastEvent' = Ev("mousedown", p)
  /\ UNCHANGED <<surface, passes, initPc, uploads, saves, renders>>

MouseMove(p) ==
  /\ state' = mousemove(state, p)
  /\ IF state.dragging = "null" THEN NoRender ELSE renderPreview(state')
  /\ lastEvent' = Ev("mousemove", p)
  /\ UNCHANGED <<initPc, uploads, saves, renders>>

MouseUp ==
  /\ state' = mouseup(state)
  /\ lastEvent' = Ev("mouseup", Origin)
  /\ NoRender
  /\ UNCHANGED <<initPc, uploads, saves, renders>>

MouseLeave ==
  /\ state' = mouseleave(state)
  /\ lastEvent' = Ev("mouseleave", Origin)
  /\ NoRender
  /\ UNCHANGED <<initPc, uploads, saves, renders>>

(***************************************************************************)
(* Icon upload: POST /api/icons, then loadIcons(); a failure is alerted.   *)
(***************************************************************************)
IconUploadChange ==
  /\ UploadCount < MaxUploads
  /\ uploads' = [uploads EXCEPT !.post = @ + 1]
  /\ lastEvent' = Other
  /\ NoRender
  /\ UNCHANGED <<state, initPc, saves, renders>>

UploadPosted(ok) ==
  /\ uploads.post > 0
  /\ uploads' = IF ok THEN [post |-> uploads.post - 1, icons |-> uploads.icons + 1]
                ELSE [uploads EXCEPT !.post = @ - 1]
  /\ lastEvent' = IF ok THEN Other ELSE Alerted("upload-failed")
  /\ NoRender
  /\ UNCHANGED <<state, initPc, saves, renders>>

\* loadIcons() of the upload handler gets its answer
UploadIconsLoaded(icons) ==
  /\ uploads.icons > 0
  /\ uploads' = [uploads EXCEPT !.icons = @ - 1]
  /\ state' = [state EXCEPT !.icons = icons]
  /\ lastEvent' = Other
  /\ NoRender
  /\ UNCHANGED <<initPc, saves, renders>>

UploadIconsFailed ==
  /\ uploads.icons > 0
  /\ uploads' = [uploads EXCEPT !.icons = @ - 1]
  /\ lastEvent' = Alerted("upload-failed")
  /\ NoRender
  /\ UNCHANGED <<state, initPc, saves, renders>>

(***************************************************************************)
(* init(): attachControls(), then the four loads one after the other, then *)
(* renderPreview().  A failed load rejects init's promise.                 *)
(***************************************************************************)
\* a variant of init() that loads the icons before the layouts
initThenIconsFirst(pc) ==
  CASE pc = "colors"  -> "icons"
    [] pc = "icons"   -> "layouts"
    [] pc = "layouts" -> "history"
    [] pc = "history" -> "done"

\* what init() does after the load `pc` has returned: the next load it calls
\* and awaits, "done" after its renderPreview()
initThen(pc) ==
  CASE pc = "colors"  -> "layouts"
    [] pc = "layouts" -> "icons"
    [] pc = "icons"   -> "history"
    [] pc = "history" -> "done"

InitColorsLoaded(colors) ==
  /\ initPc = "colors"
  /\ state' = [state EXCEPT !.colors = colors]
  /\ initPc' = initThen("colors")
  /\ lastEvent' = Other
  /\ NoRender
  /\ UNCHANGED <<uploads, saves, renders>>

\* a variant of loadLayouts that stores the list and keeps the geometry
loadLayoutsKeepsGeometry(s, layouts) == [s EXCEPT !.layouts = layouts]

\* loadLayouts(): the first preset of a list that is not empty is applied
loadLayouts(s, layouts) ==
  LET loaded == [s EXCEPT !.layouts = layouts]
  IN  IF Len(layouts) > 0 THEN applyLayout(loaded, layouts[1]) ELSE loaded

InitLayoutsLoaded(layouts) ==
  /\ initPc = "layouts"
  /\ state' = loadLayouts(state, layouts)
  /\ IF Len(layouts) > 0 THEN renderPreview(state') ELSE NoRender
  /\ initPc' = initThen("layouts")
  /\ lastEvent' = IF Len(layouts) > 0 THEN Ev("applyLayout", Pt(1, 0)) ELSE Other
  /\ UNCHANGED <<uploads, saves, renders>>

InitIconsLoaded(icons) ==
  /\ initPc = "icons"
  /\ state' = [state EXCEPT !.icons = icons]
  /\ initPc' = initThen("icons")
  /\ lastEvent' = Other
  /\ NoRender
  /\ UNCHANGED <<uploads, saves, renders>>

InitHistoryLoaded ==
  /\ initPc = "history"
  /\ initPc' = initThen("history")
  /\ renderPreview(state)
  /\ lastEvent' = Other
  /\ UNCHANGED <<state, uploads, saves, renders>>

InitLoadFailed ==
  /\ initPc \in {"colors", "layouts", "icons", "history"}
  /\ initPc' = "failed"
  /\ lastEvent' = Uncaught("init-failed")
  /\ NoRender
  /\ UNCHANGED <<state, uploads, saves, renders>>

(***************************************************************************)
(* save-layout: prompt for a name, POST /api/layout-presets, loadLayouts().*)
(* The handler has no catch clause.                                        *)
(***************************************************************************)
SaveCount == saves.post + saves.layouts

\* !name
Falsy(name) == name \in { "null", "" }

\* the number of characters the user gave as the name
NameLength(name) == IF name = "null" THEN 0 ELSE Len(name)

SaveLayoutClick(name) ==
  /\ IF Falsy(name) THEN saves' = saves
     ELSE /\ SaveCount < MaxSaves
          /\ saves' = [saves EXCEPT !.post = @ + 1]
  /\ lastEvent' = Ev("save-layout", Pt(NameLength(name), 0))
  /\ NoRender
  /\ UNCHANGED <<state, initPc, uploads, renders>>

\* POST /api/layout-presets is answered; then loadLayouts() sends its GET
SavePosted(ok) ==
  /\ saves.post > 0
  /\ saves' = IF ok THEN [post |-> saves.post - 1, layouts |-> saves.layouts + 1]
              ELSE [saves EXCEPT !.post = @ - 1]
  /\ lastEvent' = IF ok THEN Other ELSE Uncaught("save-failed")
  /\ NoRender
  /\ UNCHANGED <<state, initPc, uploads, renders>>

\* loadLayouts() of the save handler gets its answer
SaveLayoutsLoaded(layouts) ==
  /\ saves.layouts > 0
  /\ saves' = [saves EXCEPT !.layouts = @ - 1]
  /\ state' = loadLayouts(state, layouts)
  /\ IF Len(layouts) > 0 THEN renderPreview(state') ELSE NoRender
  /\ lastEvent' = IF Len(layouts) > 0 THEN Ev("applyLayout", Pt(1, 0)) ELSE Other
  /\ UNCHANGED <<initPc, uploads, renders>>

SaveLayoutsFailed ==
  /\ saves.layouts > 0
  /\ saves' = [saves EXCEPT !.layouts = @ - 1]
  /\ lastEvent' = Uncaught("save-failed")
  /\ NoRender
  /\ UNCHANGED <<state, initPc, uploads, renders>>

(***************************************************************************)
(* render-btn: POST /api/render with the payload built at the click, then  *)
(* loadHistory(), then window.open(); a failure of either is alerted.      *)
(***************************************************************************)
\* const payload = { ... }
payload(s) ==
  [ name          |-> IF s.text = "" THEN "kachel" ELSE s.text,
    icon_id       |-> IF s.selectedIcon # null THEN s.selectedIcon.id ELSE JsonNull,
    color_hex     |-> s.selectedColor,
    text          |-> s.text,
    layout_params |-> currentLayoutParams(s) ]

\* JSON.stringify of a number: NaN is written as null
JsonNumber(n) == IF IsNaN(n) THEN JsonNull ELSE n

\* JSON.stringify(payload), as the document the server reads
stringify(doc) ==
  [doc EXCEPT !.layout_params.icon.x = JsonNumber(@),
              !.layout_params.icon.y = JsonNumber(@),
              !.layout_params.icon.scale = JsonNumber(@),
              !.layout_params.text.x = JsonNumber(@),
              !.layout_params.text.y = JsonNumber(@),
              !.layout_params.text.font_size = JsonNumber(@)]

\* the sequence without its i-th element
Remove(seq, i) == SubSeq(seq, 1, i - 1) \o SubSeq(seq, i + 1, Len(seq))

RenderClick ==
  /\ Len(renders) < MaxRenders
  /\ renders' = Append(renders, [await |-> "render", body |-> stringify(payload(state)),
                                 url |-> "none"])
  /\ lastEvent' = Ev("render-btn", Origin)
  /\ NoRender
  /\ UNCHANGED <<state, initPc, uploads, saves>>

\* POST /api/render of the i-th handler is answered with a download_url; then
\* loadHistory() sends its GET
RenderPosted(i, url) ==
  /\ i \in 1..Len(renders)
  /\ renders[i].await = "render"
  /\ renders' = [renders EXCEPT ![i].await = "history", ![i].url = url]
  /\ lastEvent' = Other
  /\ NoRender
  /\ UNCHANGED <<state, initPc, uploads, saves>>

\* POST /api/render or the GET of loadHistory() fails: catch, alert
RenderFailed(i) ==
  /\ i \in 1..Len(renders)
  /\ renders' = Remove(renders, i)
  /\ lastEvent' = Alerted("render-failed")
  /\ NoRender
  /\ UNCHANGED <<state, initPc, uploads, saves>>

\* loadHistory() of the i-th handler gets its answer; then window.open
RenderHistoryLoaded(i) ==
  /\ i \in 1..Len(renders)
  /\ renders[i].await = "history"
  /\ renders' = Remove(renders, i)
  /\ lastEvent' = [Ev("render-done", Origin) EXCEPT !.open = renders[i].url \o "?download=1"]
  /\ NoRender
  /\ UNCHANGED <<state, initPc, uploads, saves>>

(***************************************************************************)
(* The specification.                                                      *)
(***************************************************************************)
Init ==
  /\ state = InitialState
  /\ surface = <<>>
  /\ ctxFont = DefaultFontPx
  /\ passes = [u \in Urls |-> 0]
  /\ initPc = "colors"
  /\ uploads = [post |-> 0, icons |-> 0]
  /\ saves = [post |-> 0, layouts |-> 0]
  /\ renders = <<>>
  /\ lastEvent = Other

\* pointer events at the points of `points`
PointerEvent(points) ==
  \/ \E p \in points : MouseDown(p)
  \/ \E p \in points : MouseMove(p)
  \/ MouseUp
  \/ MouseLeave

\* inputs of the text, color, scale and size controls
ControlInput ==
  \/ \E v \in TextValues : TextInput(v)
  \/ \E v \in ColorValues : ColorSelectChange(v)
  \/ \E v \in ColorValues : ColorCustomInput(v)
  \/ \E v \in ScaleValues : IconScaleInput(v)
  \/ \E v \in SizeValues : TextSizeInput(v)

\* choice of a preset or of an icon
Selection ==
  \/ \E i \in 1..2 : LayoutSelectChange(i)
  \/ \E i \in 1..2 : IconClick(i)

\* icon upload and the reload of the icons after it, the store answering
\* GET /api/icons with a list of `lists`
Upload(lists) ==
  \/ IconUploadChange
  \/ \E ok \in BOOLEAN : UploadPosted(ok)
  \/ \E icons \in lists : UploadIconsLoaded(icons)
  \/ UploadIconsFailed

\* the text, scale and size controls when scale and size may be left empty
RawInput ==
  \/ \E v \in TextValues : TextInput(v)
  \/ \E v \in RawScaleValues : IconScaleInput(v)
  \/ \E v \in RawSizeValues : TextSizeInput(v)

\* the save-layout button, the store answering GET /api/layout-presets with
\* a list of `lists`
SaveLayout(lists) ==
  \/ \E name \in PromptValues : SaveLayoutClick(name)
  \/ \E ok \in BOOLEAN : SavePosted(ok)
  \/ \E layouts \in lists : SaveLayoutsLoaded(layouts)
  \/ SaveLayoutsFailed

\* the render button
Render ==
  \/ RenderClick
  \/ \E i \in 1..MaxRenders, url \in DownloadUrls : RenderPosted(i, url)
  \/ \E i \in 1..MaxRenders : RenderFailed(i)
  \/ \E i \in 1..MaxRenders : RenderHistoryLoaded(i)

\* the answers to init()'s requests
Startup(lists) ==
  \/ \E colors \in ColorLists : InitColorsLoaded(colors)
  \/ \E layouts \in LayoutLists : InitLayoutsLoaded(layouts)
  \/ \E icons \in lists : InitIconsLoaded(icons)
  \/ InitHistoryLoaded
  \/ InitLoadFailed

\* the icon decodes settle
Decode ==
  \/ \E img \in Urls : DecodeResolved(img)
  \/ \E img \in Urls : DecodeRejected(img)

Next ==
  \/ PointerEvent(Points) \/ ControlInput \/ RawInput \/ Selection
  \/ Upload(IconLists) \/ SaveLayout(ReloadLists) \/ Render \/ Startup(IconLists) \/ Decode

Spec == Init /\ [][Next]_vars

\* The editor when the user drags, picks icons and presets and uploads icons,
\* and leaves the text, color, scale and size controls alone; the store holds
\* no icon or one.
NextPointer ==
  \/ PointerEvent(Points) \/ Selection
  \/ Upload(FewIconLists) \/ Startup(FewIconLists) \/ Decode

SpecPointer == Init /\ [][NextPointer]_vars

\* The editor when the user works the controls, picks icons and presets and
\* drags, uploads nothing, and every icon decodes; the store holds two icons.
NextRender ==
  \/ PointerEvent(HitPoints) \/ ControlInput \/ Selection
  \/ Startup(TwoIconLists)
  \/ \E img \in Urls : DecodeResolved(img)

SpecRender == Init /\ [][NextRender]_vars

\* The editor when the user saves presets and renders tiles, works the text,
\* scale and size controls, leaving scale or size empty at times, and picks
\* icons; the store holds no icon or one.
NextRequests ==
  \/ RawInput \/ \E i \in 1..2 : IconClick(i)
  \/ SaveLayout(LayoutLists) \/ Render \/ Startup(FewIconLists) \/ Decode

SpecRequests == Init /\ [][NextRequests]_vars

\* The editor when the user works the text, color, scale and size controls,
\* leaving scale or size empty at times, picks icons and presets and drags,
\* and every icon decodes; the store holds two icons.
NextInputs ==
  \/ PointerEvent(HitPoints) \/ RawInput \/ Selection
  \/ \E v \in ColorValues : ColorCustomInput(v)
  \/ Startup(TwoIconLists)
  \/ \E img \in Urls : DecodeResolved(img)

SpecInputs == Init /\ [][NextInputs]_vars

\* The editor when the user drags, picks icons and saves presets while the
\* startup loads and the reloads of the presets are answered; the store holds
\* no icon or one.
NextSave ==
  \/ PointerEvent(HitPoints) \/ \E i \in 1..2 : IconClick(i)
  \/ SaveLayout(ReloadLists) \/ Startup(FewIconLists) \/ Decode

SpecSave == Init /\ [][NextSave]_vars

(***************************************************************************)
(* The claims.                                                             *)
(***************************************************************************)
\* the pointer position of the last event, when it was a pointer event
LastPoint == lastEvent.p

\* the text box of the mousedown handler contains p (ctx.font being set from
\* state.textSize before the text is measured)
InTextBox(s, font, p) == textHit(s, setFont(font, s.textSize), p)

\* C1: for every editor state s, applying currentLayoutParams(s) with
\* applyLayout to a fresh state yields the iconPosition, iconScale,
\* textPosition and textSize of s, iconPosition being exactly the point
\* {x, y} of s with no other field.
C1_StateRoundTrip ==
  LET applied == applyLayout(InitialState, [params |-> currentLayoutParams(state)])
  IN  /\ applied.iconPosition = Pt(state.iconPosition.x, state.iconPosition.y)
      /\ applied.iconScale = state.iconScale
      /\ applied.textPosition = Pt(state.textPosition.x, state.textPosition.y)
      /\ applied.textSize = state.textSize

\* the preset that the last event applied
Applied(s, ev) == s.layouts[ev.p.x].params

\* C2: every application of a preset sets iconPosition, iconScale,
\* textPosition and textSize to icon.x / icon.y, icon.scale, text.x / text.y
\* and text.font_size of its params and leaves text, selectedColor,
\* selectedIcon and dragging as they were.
C2_ApplyLayoutFrame ==
  [][ lastEvent'.kind = "applyLayout" =>
        LET params == Applied(state', lastEvent')
        IN  /\ state'.iconPosition.x = params.icon.x
            /\ state'.iconPosition.y = params.icon.y
            /\ state'.iconScale = params.icon.scale
            /\ state'.textPosition = Pt(params.text.x, params.text.y)
            /\ state'.textSize = params.text.font_size
            /\ state'.text = state.text
            /\ state'.selectedColor = state.selectedColor
            /\ state'.selectedIcon = state.selectedIcon
            /\ state'.dragging = state.dragging ]_vars

\* a preset that differs from the state before it has been applied to a state
\* whose text, color, icon and drag target were no longer the initial ones
C2_Witness ==
  /\ lastEvent.kind = "applyLayout"
  /\ state.iconPosition = Preset2.params.icon
  /\ state.textSize = Preset2.params.text.font_size
  /\ state.text # InitialState.text
  /\ state.selectedColor # InitialState.selectedColor
  /\ state.selectedIcon # null
  /\ state.dragging = "text"

\* C3: applying a params document d of the canonical shape and then producing
\* a document with currentLayoutParams yields d, equal in every field.
C3_DocumentRoundTrip ==
  lastEvent.kind = "applyLayout" => currentLayoutParams(state) = Applied(state, lastEvent)

\* C4: a mousedown at a point inside both the icon square (an icon being
\* selected) and the text box makes the drag target icon; it becomes text only
\* when the icon test failed and the text box contains the point.
C4_HitTestPriority ==
  [][ lastEvent'.kind = "mousedown" =>
        /\ iconHit(state, lastEvent'.p) /\ InTextBox(state, ctxFont, lastEvent'.p)
             => state'.dragging = "icon"
        /\ state'.dragging = "text" /\ state.dragging # "text"
             => ~iconHit(state, lastEvent'.p) /\ InTextBox(state, ctxFont, lastEvent'.p) ]_vars

\* a mousedown at a point of both boxes has made the drag target icon
C4_Witness ==
  /\ lastEvent.kind = "mousedown"
  /\ iconHit(state, LastPoint)
  /\ InTextBox(state, ctxFont, LastPoint)
  /\ state.dragging = "icon"

\* C5: a mousemove to Q while the drag target is icon sets iconPosition to
\* exactly Q, while it is text sets textPosition to exactly Q, and changes no
\* other field of the state.
C5_DragSnap ==
  [][ lastEvent'.kind = "mousemove" =>
        LET Q == lastEvent'.p
        IN  /\ state.dragging = "icon" => state' = [state EXCEPT !.iconPosition = Pt(Q.x, Q.y)]
            /\ state.dragging = "text" => state' = [state EXCEPT !.textPosition = Pt(Q.x, Q.y)] ]_vars

\* the icon, which a preset had put at (200, 200), follows the pointer to
\* (5, 5), and the text stays where the preset put it
C5_Witness ==
  /\ lastEvent.kind = "mousemove"
  /\ state.dragging = "icon"
  /\ LastPoint = Pt(5, 5)
  /\ state.iconPosition = Pt(5, 5)
  /\ state.iconScale = Preset2.params.icon.scale
  /\ state.textPosition = Pt(Preset2.params.text.x, Preset2.params.text.y)

\* C6: after a mousedown at a point outside the icon box and the text box the
\* drag target is none, whatever it was before, and the mousemove after it
\* changes neither iconPosition nor textPosition.
C6_MissLeavesNone ==
  [][ /\ lastEvent'.kind = "mousedown"
           /\ ~iconHit(state, lastEvent'.p) /\ ~InTextBox(state, ctxFont, lastEvent'.p)
           => state'.dragging = "null"
      /\ lastEvent.kind = "mousedown" /\ lastEvent'.kind = "mousemove"
           /\ ~iconHit(state, LastPoint) /\ ~InTextBox(state, ctxFont, LastPoint)
           => /\ state'.iconPosition = state.iconPosition
              /\ state'.textPosition = state.textPosition ]_vars

\* C7: mouseup and mouseleave make the drag target none from every state, a
\* state with a render pass suspended on the icon's decode included; the drag
\* target then stays none until a mousedown hits the icon or the text, and no
\* mousemove in between changes iconPosition or textPosition.
C7_ReleaseEndsDrag ==
  [][ /\ lastEvent'.kind \in {"mouseup", "mouseleave"}
           => state' = [state EXCEPT !.dragging = "null"]
      /\ state.dragging = "null" /\ state'.dragging # "null"
           => /\ lastEvent'.kind = "mousedown"
              /\ iconHit(state, lastEvent'.p) \/ InTextBox(state, ctxFont, lastEvent'.p)
      /\ state.dragging = "null" /\ lastEvent'.kind = "mousemove"
           => /\ state'.iconPosition = state.iconPosition
              /\ state'.textPosition = state.textPosition ]_vars

\* a mouseup has ended a drag that took the text to (5, 5), while render
\* passes of that drag are suspended on the decode
C7_Witness ==
  /\ lastEvent.kind = "mouseup"
  /\ state.dragging = "null"
  /\ state.textPosition = Pt(5, 5)
  /\ PassCount > 0

\* C8: the drag target is always one of none, icon, text, and it is icon only
\* when an icon is selected.
C8_DragTargetInvariant ==
  /\ state.dragging \in {"null", "icon", "text"}
  /\ state.dragging = "icon" => state.selectedIcon # null

\* the icon is being dragged after a reload of the icons that no longer
\* lists the selected icon
C8_Witness ==
  /\ state.dragging = "icon"
  /\ state.selectedIcon = Icon1
  /\ state.icons = <<>>
  /\ lastEvent.kind = "mousedown"

\* C9: at most one render pass is in flight at any time.
C9_OnePassInFlight == PassCount <= 1

\* what one render pass paints for state s
OnePass(s) ==
  <<FillOp(s)>>
    \o (IF s.selectedIcon # null THEN IconOps(s, s.selectedIcon.preview_url) ELSE <<>>)
    \o <<TextOp(s, setFont(ctxFont, s.textSize))>>

\* C10: once no render pass is in flight, what is painted on the surface since
\* its last clear is one background fill, one icon draw if an icon is selected
\* and one text draw, all of the current state, however many passes were
\* started and however they interleaved.
C10_RenderDeterminism ==
  surface # <<>> /\ PassCount = 0 => surface = OnePass(state)

\* C11: a click on save-layout answered with an empty or cancelled name sends
\* no POST and reloads nothing, leaves the editor state and the preset list
\* as they were, and reports the failure to the user.
C11_EmptyNameRejected ==
  [][ lastEvent'.kind = "save-layout" /\ lastEvent'.p.x = 0
      => /\ saves' = saves
         /\ state' = state
         /\ lastEvent'.alert # "none" ]_vars

\* the requests that await their answer: each handler in flight awaits one
Outstanding ==
  UploadCount + SaveCount + Len(renders)
    + (IF initPc \in {"colors", "layouts", "icons", "history"} THEN 1 ELSE 0)

\* C12: every failed request, in icon upload, in save-layout and the preset
\* reload after it, in render-btn and the history reload after it, and in the
\* startup loads, has its error message shown with alert and is not sent
\* again: the failing step leaves one request fewer outstanding.
C12_FailuresAlerted ==
  [][ lastEvent'.kind \in FailureKinds
      => /\ lastEvent'.alert = RequestFailed
         /\ Outstanding' = Outstanding - 1 ]_vars

\* C13: in every reachable state iconScale is a positive number and textSize
\* a positive integer, whatever the icon-scale and text-size controls
\* delivered (an empty value included) and whatever presets were applied.
C13_PositiveSizes ==
  /\ ~IsNaN(state.iconScale) /\ state.iconScale > 0
  /\ ~IsNaN(state.textSize) /\ state.textSize \in Nat \ {0}

\* the order of init()'s loads, as pairs of a load and the one after it
StartupOrder ==
  { <<"colors", "layouts">>, <<"layouts", "icons">>, <<"icons", "history">>,
    <<"history", "done">> }

\* C14: init() sends the requests for colors, layouts, icons and history in
\* this order, each when the answer to the one before is stored in the state
\* (it awaits one request at a time); a failure ends it; its own
\* renderPreview() comes after the answer to the fourth, and until then init
\* paints only through the applyLayout of loadLayouts.
C14_StartupSequential ==
  [][ initPc' # initPc
      => /\ initPc' = "failed" \/ <<initPc, initPc'>> \in StartupOrder
         /\ initPc' = "failed" => state' = state /\ surface' = surface
         /\ initPc' = "layouts" => state'.colors \in ColorLists
         /\ initPc' = "icons" => state'.layouts \in LayoutLists
         /\ initPc' = "history" => state'.icons \in IconLists
         /\ initPc' \in {"layouts", "history"} => surface' = surface
         /\ initPc' = "icons" /\ state'.layouts = <<>> => surface' = surface
         /\ initPc' = "done" => state' = state /\ surface'[1] = FillOp(state) ]_vars

C14_Witness ==
  initPc = "done" /\ state.colors # <<>> /\ state.layouts # <<>> /\ state.icons # <<>>

\* C15: when POST /api/render has succeeded with a download_url, the handler
\* opens download_url?download=1, once, in the step that ends it, whether its
\* reload of the history succeeded or failed.
C15_DownloadOpened ==
  [][ \A i \in 1..Len(renders) :
        renders[i].await = "history" /\ renders' = Remove(renders, i)
        => lastEvent'.open = renders[i].url \o "?download=1" ]_vars

\* C16: when the decode of the selected icon fails, the render pass still
\* finishes: it draws the text of the current state, and no icon, on the
\* background it filled, and render passes started later still run.
C16_DecodeFailureTolerated ==
  [][ lastEvent'.kind = "decode-error"
      => /\ surface' = surface \o <<TextOp(state, setFont(ctxFont, state.textSize))>>
         /\ state' = state ]_vars

\* C17: a render pass writes no field of the editor state: the steps that are
\* a part of a pass and of nothing else - the rest of a pass when its decode
\* settles, and the renderPreview() that ends init() - leave the state as it
\* is, also when handlers changed it while the pass was suspended.
C17_RenderPassFrame ==
  [][ PassCount' < PassCount \/ (initPc = "history" /\ initPc' = "done")
      => state' = state ]_vars

\* a pass has drawn the icon and the text while a drag is in progress
C17_Witness ==
  /\ PassCount = 0 /\ Len(surface) = 3 /\ surface[2].op = "drawImage"
  /\ state.dragging = "icon" /\ lastEvent.kind = "other"

\* C18: a click on render-btn sends one request, whose body is taken from the
\* state at the click: color_hex is selectedColor, text is text, name is text
\* or "kachel" for an empty text, icon_id is the id of the selected icon and
\* null exactly when none is selected, layout_params is currentLayoutParams();
\* and the body of a request that is outstanding never changes.
C18_RenderRequestSnapshot ==
  [][ /\ lastEvent'.kind = "render-btn"
         => /\ Len(renders') = Len(renders) + 1
            /\ SubSeq(renders', 1, Len(renders)) = renders
            /\ LET body == renders'[Len(renders')].body
               IN  /\ body.color_hex = state.selectedColor
                   /\ body.text = state.text
                   /\ body.name = (IF state.text = "" THEN "kachel" ELSE state.text)
                   /\ state.selectedIcon # null => body.icon_id = state.selectedIcon.id
                   /\ state.selectedIcon = null <=> body.icon_id = JsonNull
                   /\ body.layout_params = currentLayoutParams(state)
      /\ lastEvent'.kind # "render-btn" /\ Len(renders') = Len(renders)
         => \A i \in 1..Len(renders) : renders'[i].body = renders[i].body ]_vars

\* C19: when no render pass is suspended (and no decode has failed), what is
\* on the surface is of the current state: the fill after the last clear has
\* the current selectedColor, every icon drawn since has the current
\* iconPosition and iconScale, and every text drawn since has the current
\* text, textPosition and textSize.
C19_NoStaleDraw ==
  PassCount = 0 /\ surface # <<>>
  => /\ surface[1] = FillOp(state)
     /\ \A k \in 2..Len(surface) :
          /\ surface[k].op = "drawImage"
             => /\ ~IsNaN(state.iconScale)
                /\ surface[k].x4 = 4 * state.iconPosition.x - IconHalf4(state)
                /\ surface[k].y4 = 4 * state.iconPosition.y - IconHalf4(state)
                /\ surface[k].size4 = 2 * IconHalf4(state)
          /\ surface[k].op = "fillText"
             => /\ surface[k].text = state.text
                /\ surface[k].x = state.textPosition.x
                /\ surface[k].y = state.textPosition.y
                /\ surface[k].font = state.textSize

\* a step in which a loadLayouts() call returns: that of init(), or that of a
\* save-layout handler
LoadLayoutsReturns ==
  \/ initPc = "layouts" /\ initPc' = "icons"
  \/ saves'.layouts < saves.layouts /\ lastEvent'.kind \notin FailureKinds

\* C20: when a loadLayouts() call returns with a list that is not empty, at
\* startup or after a save, the geometry of the editor is that of the first
\* preset of the list, whatever it was before, saved and dragged geometry
\* included; with an empty list the geometry stays as it was.
C20_LoadAppliesFirstPreset ==
  [][ LoadLayoutsReturns
      => IF state'.layouts # <<>>
         THEN LET params == state'.layouts[1].params
              IN  /\ state'.iconPosition.x = params.icon.x
                  /\ state'.iconPosition.y = params.icon.y
                  /\ state'.iconScale = params.icon.scale
                  /\ state'.textPosition = Pt(params.text.x, params.text.y)
                  /\ state'.textSize = params.text.font_size
         ELSE /\ state'.iconPosition = state.iconPosition
              /\ state'.iconScale = state.iconScale
              /\ state'.textPosition = state.textPosition
              /\ state'.textSize = state.textSize ]_vars

\* the reload after a save has just put the text at the place of the first
\* preset, here the other client's, while the user drags the text
C20_Witness ==
  /\ lastEvent.kind = "applyLayout" /\ initPc = "done" /\ SaveCount = 0
  /\ state.dragging = "text"
  /\ state.layouts[1] = Preset2
  /\ state.textPosition = Pt(Preset2.params.text.x, Preset2.params.text.y)
====
